---- MODULE Spec2Model ----
(***************************************************************************)
(* Model of the orchestration core of saribmah/orchestrator:               *)
(*   - the Session Queue      (packages/core/src/queue.ts, class           *)
(*                             SessionQueue with persistence, l.267-621)   *)
(*   - the Orchestration Engine (packages/core/src/bus.ts l.209-508,       *)
(*                             function orchestrate)                       *)
(*   - the Event Bus           (packages/core/src/bus.ts l.19-159,         *)
(*                             class EventBus)                             *)
(*   - the pending questions of the server (packages/core/src/server.ts)   *)
(*   - the Streaming Transport (packages/core/src/sse.ts)                  *)
(*   - the approval predicate (packages/core/src/agents/codex.ts)          *)
(* Each component has its own specification (SpecQueue, SpecEngine,        *)
(* SpecBus, SpecServer, SpecSse, SpecApproval) over the shared variable     *)
(* tuple; a component's actions leave the other components' variables       *)
(* unchanged. SpecEngineFaulty adds failing saves to the engine,            *)
(* SpecBusUnsub handlers that unsubscribe during a publish to the bus.      *)
(***************************************************************************)
EXTENDS Integers, Sequences, FiniteSets, TLC

VARIABLES
    \* ---- Session Queue (queue.ts) ----
    state,          \* SessionQueue.state: [items, isProcessing, currentItemId]
    initialized,    \* SessionQueue.initialized
    lanes,          \* processNext invocations awaiting orchestrate()
    writes,         \* Bun.write calls started and not yet completed
    disk,           \* content of ~/.orchestrator/queue.json (<<>>: no file)
    initPc,         \* position of the one initialize() call
    savedState,     \* initialize's local savedState (<<>>: null)
    nextId,         \* next fresh queue item id
    lastRun,        \* the engine run whose return was just recorded
    lastOp,         \* the queue operation that ran last
    quiet,          \* no queue operation has run beside initialize since start
    \* ---- Orchestration Engine (orchestrate) ----
    s,              \* the OrchestrationState the run works on
    store,          \* the Session Store's record of the session (<<>>: none)
    pc,             \* position of the run
    interactive,    \* options.interactive
    resumed,        \* orchestrate was given a resumeState
    resumingFromStep,   \* local of orchestrate
    resumingIteration,  \* local of orchestrate
    feedback,       \* local feedback is a non-empty string
    shouldSkip,     \* local shouldSkipImplementation of the current loop pass
    reviewOut,      \* output class of the review that just returned
    calls,          \* agent invocations since the run was started or resumed
    resumeStep,     \* lastFailedStep of the record the run was resumed from
    resumeIter,     \* iteration of the record the run was resumed from
    resumeMax,      \* maxIterations of the record the run was resumed from
    afterSkip,      \* outcome of the review of a pass that skipped the implementer
    resumes,        \* resumes so far
    extensions,     \* iteration extensions so far
    emitted,        \* the agent, error and complete events the run has emitted
    endedBy,        \* why the run returned
    extendedAt,     \* maxIterations and number of calls at the last extension of the run
    uncommitted,    \* the step last started whose result is not in the store's history
    answer,         \* the answer the step just made received from onQuestion
    \* ---- Event Bus (class EventBus) ----
    subscriptions,  \* EventBus.subscriptions, in insertion order
    subscriptionCounter,    \* EventBus.subscriptionCounter
    eventBuffers,   \* EventBus.eventBuffers (<<>>: no entry for the session)
    now,            \* Date.now(), in ticks
    replay,         \* the replay loop of the subscribe call in progress
    received,       \* per subscription id: the events its handler was given
    published,      \* per session: the events published, with their time
    reg,            \* per subscription id: what held when it was registered
    nextEvent,      \* next fresh event number
    threw,          \* a handler threw in the publish or replay pass just made
    propagated,     \* an exception of a handler reached the caller of the bus
    midPublish,     \* the handlers unsubscribed during a publish: skipped, or invoked all the same
    \* ---- Server: pending questions (server.ts) ----
    activeSessions, \* the keys of the Map activeSessions, in insertion order
    pendingQuestion,    \* per entry: the session whose engine awaits the stored resolver
    engines,        \* per session: its engine run, how it was started, questions asked
    lastRespond,    \* the respond request just served: its session, whose question it resolved
    \* ---- Streaming transport (sse.ts) ----
    streams,        \* per stream: its session, the position of its callback, stream.aborted
    activeConnections,  \* the Map activeConnections (0: no entry)
    subscribed,     \* the streams whose handler is subscribed to the bus
    pinged,         \* the sessions the keep-alive pass just made has pinged
    \* ---- Approval predicate (agents/codex.ts) ----
    reviewOutput,   \* the reviewer output handed to isApproved, as a sequence of characters
    verdict         \* what isApproved returned for it ("none": not called yet)

varsQ == <<state, initialized, lanes, writes, disk, initPc, savedState,
           nextId, lastOp, quiet,
           lastRun>>

varsE == <<s, store, pc, interactive, resumed, resumingFromStep,
           resumingIteration, feedback, shouldSkip, reviewOut, calls,
           resumeStep, resumeIter, resumeMax, afterSkip, resumes, extensions,
           emitted, endedBy, extendedAt, uncommitted, answer>>

varsB == <<subscriptions, subscriptionCounter, eventBuffers, now, replay,
           received, published, reg, nextEvent, threw, propagated,
           midPublish>>

varsS == <<activeSessions, pendingQuestion, engines, lastRespond>>

varsC == <<streams, activeConnections, subscribed, pinged>>

varsA == <<reviewOutput, verdict>>

vars == <<varsQ, varsE, varsB, varsS, varsC, varsA>>

(***************************************************************************)
(* Bounds of the model.                                                    *)
(***************************************************************************)
MaxItems == 3       \* queue items ever added
MaxWrites == 2      \* queue writes in flight at once
MaxIterations == 3  \* options.maxIterations of a new session
MaxResumes == 2     \* resumes of the session
MaxExtensions == 1  \* iteration extensions of the session
MaxEvents == 3      \* events ever published
MaxSubs == 2        \* subscriptions ever registered
MaxTime == 1        \* ticks of the clock
EVENT_BUFFER_MAX_SIZE == 2  \* the cap of a session's buffer, scaled down from 100
EVENT_BUFFER_TTL_MS == 1    \* the TTL of a buffered event in ticks, scaled down from 30000 ms
MaxQuestions == 2   \* questions the engine of one session asks
MaxStreams == 3     \* event streams ever connected
MaxParts == 3       \* pieces a reviewer output is put together from

(***************************************************************************)
(* SESSION QUEUE                                                           *)
(***************************************************************************)
OthersQ == <<varsE, varsB, varsS, varsC, varsA>>

NoId == 0

NoRun == [item |-> NoId, orphan |-> FALSE, outcome |-> "none"]

RestartError == "Server restarted while processing"
StatusError == "Session ended with status: failed"
ThrownError == "Unknown error"

EmptyState == [items |-> <<>>, isProcessing |-> FALSE, currentItemId |-> NoId]

NewItem(id) == [id |-> id, status |-> "pending", error |-> ""]

\* JSON.stringify(state): the snapshot handed to Bun.write when save() is called
Snapshot(st) == st

\* save(): starts a write of the current state and does not wait for it
Save(st, wr, byInit) == wr \cup {[doc |-> Snapshot(st), init |-> byInit]}

PendingIdx(items) == {i \in 1..Len(items) : items[i].status = "pending"}

Min(S) == CHOOSE x \in S : \A y \in S : x <= y

\* a splice that removes the head of the list whatever the index
RemoveFirst(q, i) == Tail(q)

RemoveAt(q, i) == SubSeq(q, 1, i - 1) \o SubSeq(q, i + 1, Len(q))

RECURSIVE FilterNotPending(_)
FilterNotPending(q) ==
    IF q = <<>> THEN <<>>
    ELSE IF Head(q).status = "pending" THEN FilterNotPending(Tail(q))
         ELSE <<Head(q)>> \o FilterNotPending(Tail(q))

\* a processNext that starts nothing
ProcessNextHalt(st, ln, wr) == [state |-> st, lanes |-> ln, writes |-> wr]

\* processNext up to its await of orchestrate (or its return when idle)
ProcessNext(st, ln, wr) ==
    IF PendingIdx(st.items) = {}
    THEN LET st1 == [st EXCEPT !.isProcessing = FALSE, !.currentItemId = NoId]
         IN  [state |-> st1, lanes |-> ln, writes |-> Save(st1, wr, FALSE)]
    ELSE LET i == Min(PendingIdx(st.items))
             st1 == [items |-> [st.items EXCEPT ![i].status = "running"],
                     isProcessing |-> TRUE,
                     currentItemId |-> st.items[i].id]
         IN  [state |-> st1,
              lanes |-> ln \cup {[item |-> st.items[i].id, orphan |-> FALSE]},
              writes |-> Save(st1, wr, FALSE)]

\* the loop of initialize with its body left out
MarkInterruptedNone(items) == items

\* the loop of initialize that fails the items found running
MarkInterrupted(items) ==
    [i \in 1..Len(items) |->
        IF items[i].status = "running"
        THEN [items[i] EXCEPT !.status = "failed", !.error = RestartError]
        ELSE items[i]]

\* a step that starts n writes waits while that would exceed MaxWrites in flight
CanWrite(n) == Cardinality(writes) + n <= MaxWrites

QInit ==
    /\ state = EmptyState
    /\ initialized = FALSE
    /\ lanes = {}
    /\ writes = {}
    /\ disk = <<>>
    /\ initPc = "idle"
    /\ savedState = <<>>
    /\ nextId = 1
    /\ lastOp = "none"
    /\ quiet = TRUE
    /\ lastRun = NoRun

\* add(feature, options)
Add ==
    /\ nextId <= MaxItems
    /\ CanWrite(2)
    /\ LET st1 == [state EXCEPT !.items = Append(@, NewItem(nextId))]
           wr1 == Save(st1, writes, FALSE)
           r == IF ~st1.isProcessing
                THEN ProcessNext(st1, lanes, wr1)
                ELSE [state |-> st1, lanes |-> lanes, writes |-> wr1]
       IN  /\ state' = r.state
           /\ lanes' = r.lanes
           /\ writes' = r.writes
    /\ nextId' = nextId + 1
    /\ lastOp' = "add"
    /\ quiet' = (quiet /\ initPc = "done")
    /\ UNCHANGED <<initialized, disk, initPc, savedState>>
    /\ lastRun' = NoRun
    /\ UNCHANGED OthersQ

\* addMany(items) with n items
AddMany ==
    \E n \in 0..MaxItems :
        /\ nextId + n - 1 <= MaxItems
        /\ CanWrite(2)
        /\ LET new == [k \in 1..n |-> NewItem(nextId + k - 1)]
               st1 == [state EXCEPT !.items = @ \o new]
               wr1 == Save(st1, writes, FALSE)
               r == IF ~st1.isProcessing /\ n > 0
                    THEN ProcessNext(st1, lanes, wr1)
                    ELSE [state |-> st1, lanes |-> lanes, writes |-> wr1]
           IN  /\ state' = r.state
               /\ lanes' = r.lanes
               /\ writes' = r.writes
        /\ nextId' = nextId + n
        /\ lastOp' = "addMany"
        /\ quiet' = (quiet /\ initPc = "done")
        /\ UNCHANGED <<initialized, disk, initPc, savedState>>
        /\ lastRun' = NoRun
        /\ UNCHANGED OthersQ

\* the body of remove(itemId) on state st: the state it leaves, whether it
\* called save(), and the value it returns
RemoveBody(st, itemId) ==
    LET idx == {i \in 1..Len(st.items) :
                   st.items[i].id = itemId /\ st.items[i].status = "pending"}
    IN  IF idx = {}
        THEN [state |-> st, saved |-> FALSE, ret |-> FALSE]
        ELSE [state |-> [st EXCEPT !.items = RemoveAt(@, Min(idx))],
              saved |-> TRUE, ret |-> TRUE]

\* the body of clearPending() on state st: the state it leaves and the count
\* it returns
ClearPendingBody(st) ==
    [state |-> [st EXCEPT !.items = FilterNotPending(@)],
     ret |-> Cardinality(PendingIdx(st.items))]

\* remove(itemId)
Remove ==
    \E itemId \in 1..MaxItems :
        /\ itemId < nextId
        /\ CanWrite(1)
        /\ LET r == RemoveBody(state, itemId)
           IN  /\ state' = r.state
               /\ writes' = IF r.saved THEN Save(r.state, writes, FALSE) ELSE writes
        /\ lastOp' = IF \E i \in 1..Len(state.items) :
                           state.items[i].id = itemId /\ state.items[i].status = "pending"
                      THEN "remove" ELSE "removeMiss"
        /\ quiet' = (quiet /\ initPc = "done")
        /\ UNCHANGED <<initialized, lanes, disk, initPc, savedState, nextId>>
        /\ lastRun' = NoRun
        /\ UNCHANGED OthersQ

\* clearPending()
ClearPending ==
    /\ CanWrite(1)
    /\ LET st1 == ClearPendingBody(state).state
       IN  /\ state' = st1
           /\ writes' = Save(st1, writes, FALSE)
    /\ lastOp' = "clearPending"
    /\ quiet' = (quiet /\ initPc = "done")
    /\ UNCHANGED <<initialized, lanes, disk, initPc, savedState, nextId>>
    /\ lastRun' = NoRun
    /\ UNCHANGED OthersQ

\* the item object a lane holds gets its final status; an object that is no
\* longer part of this.state (orphan) leaves this.state.items as they are
SetResult(st, l, outcome) ==
    IF l.orphan THEN st
    ELSE [st EXCEPT !.items =
            [i \in 1..Len(@) |->
                IF @[i].id = l.item
                THEN IF outcome = "approved"
                     THEN [@[i] EXCEPT !.status = "completed"]
                     ELSE [@[i] EXCEPT !.status = "failed",
                                       !.error = IF outcome = "failed"
                                                 THEN StatusError ELSE ThrownError]
                ELSE @[i]]]

\* orchestrate() of lane l returns (approved / failed) or throws: the rest of processNext
EngineReturnLane(l) ==
    /\ l \in lanes
    /\ CanWrite(2)
    /\ \E outcome \in {"approved", "failed", "throw"} :
        LET st1 == SetResult(state, l, outcome)
            wr1 == Save(st1, writes, FALSE)
            r == ProcessNext(st1, lanes \ {l}, wr1)
        IN  /\ state' = r.state
            /\ lanes' = r.lanes
            /\ writes' = r.writes
            /\ lastRun' = [item |-> l.item, orphan |-> l.orphan, outcome |-> outcome]
    /\ lastOp' = "engineReturn"
    /\ quiet' = (quiet /\ initPc = "done")
    /\ UNCHANGED <<initialized, disk, initPc, savedState, nextId>>
    /\ UNCHANGED OthersQ

Lanes == {[item |-> id, orphan |-> o] : id \in 1..MaxItems, o \in BOOLEAN}

EngineReturn == \E l \in Lanes : EngineReturnLane(l)

\* initialize() up to its await of loadQueueState()
Initialize ==
    /\ initPc \in {"idle", "done"}
    /\ IF initialized
       THEN UNCHANGED initPc
       ELSE initPc' = "loading"
    /\ lastOp' = "initialize"
    /\ UNCHANGED <<state, initialized, lanes, writes, disk, savedState,
                   nextId, quiet>>
    /\ lastRun' = NoRun
    /\ UNCHANGED OthersQ

\* loadQueueState() resolves: initialize up to its await of save()
InitLoaded ==
    /\ initPc = "loading"
    /\ savedState' = disk
    /\ IF disk = <<>>
       THEN /\ initialized' = TRUE
            /\ initPc' = "done"
            /\ UNCHANGED <<state, lanes, writes>>
       ELSE /\ CanWrite(1)
            /\ LET st1 == [items |-> MarkInterrupted(disk[1].items),
                           isProcessing |-> FALSE,
                           currentItemId |-> NoId]
               IN  /\ state' = st1
                   /\ writes' = Save(st1, writes, TRUE)
            /\ lanes' = {[item |-> l.item, orphan |-> TRUE] : l \in lanes}
            /\ initPc' = "saving"
            /\ UNCHANGED initialized
    /\ lastOp' = "initLoaded"
    /\ UNCHANGED <<disk, nextId, quiet>>
    /\ lastRun' = NoRun
    /\ UNCHANGED OthersQ

\* save() resolves: the rest of initialize
InitSaved ==
    /\ initPc = "saving"
    /\ \A w \in writes : ~w.init
    /\ CanWrite(1)
    /\ IF PendingIdx(state.items) # {}
       THEN LET r == ProcessNext(state, lanes, writes)
            IN  /\ state' = r.state
                /\ lanes' = r.lanes
                /\ writes' = r.writes
       ELSE UNCHANGED <<state, lanes, writes>>
    /\ initialized' = TRUE
    /\ initPc' = "done"
    /\ lastOp' = "initSaved"
    /\ UNCHANGED <<disk, savedState, nextId, quiet>>
    /\ lastRun' = NoRun
    /\ UNCHANGED OthersQ

\* one Bun.write completes; concurrent writes of one file complete in any order
WriteComplete ==
    \E w \in writes :
        /\ disk' = <<w.doc>>
        /\ writes' = writes \ {w}
        /\ lastOp' = "write"
        /\ UNCHANGED <<state, initialized, lanes, initPc, savedState,
                       nextId, quiet>>
        /\ lastRun' = NoRun
        /\ UNCHANGED OthersQ

\* the process dies and is started again: memory is lost, the file stays
Crash ==
    /\ lastOp # "crash"
    /\ state' = EmptyState
    /\ initialized' = FALSE
    /\ lanes' = {}
    /\ writes' = {}
    /\ initPc' = "idle"
    /\ savedState' = <<>>
    /\ lastOp' = "crash"
    /\ quiet' = TRUE
    /\ UNCHANGED <<disk, nextId>>
    /\ lastRun' = NoRun
    /\ UNCHANGED OthersQ

NextQ ==
    \/ Add
    \/ AddMany
    \/ Remove
    \/ ClearPending
    \/ EngineReturn
    \/ Initialize
    \/ InitLoaded
    \/ InitSaved
    \/ WriteComplete
    \/ Crash

(***************************************************************************)
(* ORCHESTRATION ENGINE                                                    *)
(* One session. A run is cut at its awaits: the agent invocations, the     *)
(* onQuestion gates and the saveState calls after which the run goes on.   *)
(* The process may die at any of them (EngineCrash); the session is then   *)
(* resumed from the Session Store's record (Resume).                       *)
(***************************************************************************)
OthersE == <<varsQ, varsB, varsS, varsC, varsA>>

NoStep == "none"

Entry(role, iteration, out) == [role |-> role, iteration |-> iteration, out |-> out]

Call(role, iteration) == [role |-> role, iteration |-> iteration]

FreshState(maxIterations) ==
    [iteration |-> 0, maxIterations |-> maxIterations, status |-> "prompting",
     history |-> <<>>, generatedPrompt |-> "unset", lastFailedStep |-> NoStep]

\* !generatedPrompt: undefined and the empty string are falsy
Falsy(p) == p \in {"unset", "empty"}

\* no extension was made in this run
NoExt == [max |-> 0, calls |-> 0]

\* the while condition that lets one more pass in
LoopConditionLeq(st) == st.iteration <= st.maxIterations

\* the condition of the while loop
LoopCondition(st) == st.iteration < st.maxIterations

\* a gate that lets the run on whatever the answer
ProceedsAlways(yes) == TRUE

\* if (!proceed): the run goes on when onQuestion resolved to true
Proceeds(yes) == yes

\* an unshift in the place of the push
Unshift(h, e) == <<e>> \o h

\* state.history.push(entry)
Push(h, e) == Append(h, e)

\* an approval test that every output passes
IsApprovedAny(out) == TRUE

\* isApproved(output) for the three classes of reviewer output
IsApproved(out) == out = "approve"

\* extractFeedback(output) is a non-empty string
HasFeedback(out) == out # "empty"

\* emit(type, data), for the event types the claims are about
Ev(type, info) == [type |-> type, info |-> info]

ReviewIdx(h) == {i \in 1..Len(h) : h[i].role = "reviewer"}

Max(S) == CHOOSE x \in S : \A y \in S : y <= x

\* the feedback a resumed run takes from the last review of its history
ResumeFeedback(isResume, h) ==
    IF isResume /\ ReviewIdx(h) # {}
    THEN LET last == h[Max(ReviewIdx(h))]
         IN  ~IsApproved(last.out) /\ HasFeedback(last.out)
    ELSE FALSE

\* state.iteration after the review of a pass that skipped the implementer
SkipCompensationNone(st, skip) == st

\* a compensation that counts the skipped pass twice
SkipCompensationTwice(st, skip) ==
    IF skip THEN [st EXCEPT !.iteration = @ + 2] ELSE st

SkipCompensation(st, skip) ==
    IF skip THEN [st EXCEPT !.iteration = @ + 1] ELSE st

EInit ==
    /\ s = FreshState(1)
    /\ store = <<>>
    /\ pc = "idle"
    /\ interactive = FALSE
    /\ resumed = FALSE
    /\ resumingFromStep = NoStep
    /\ resumingIteration = 0
    /\ feedback = FALSE
    /\ shouldSkip = FALSE
    /\ reviewOut = "none"
    /\ calls = <<>>
    /\ resumeStep = NoStep
    /\ resumeIter = 0
    /\ resumeMax = 0
    /\ afterSkip = "none"
    /\ resumes = 0
    /\ extensions = 0
    /\ emitted = <<>>
    /\ endedBy = "none"
    /\ extendedAt = NoExt
    /\ uncommitted = NoStep
    /\ answer = "none"

\* orchestrate from its entry to its first await, on the state st; stored is
\* the Session Store's record at entry
Enter(st, isResume, stored) ==
    /\ resumed' = isResume
    /\ resumingFromStep' = IF isResume THEN st.lastFailedStep ELSE NoStep
    /\ resumingIteration' = IF isResume THEN st.iteration ELSE 0
    /\ shouldSkip' = FALSE
    /\ reviewOut' = "none"
    /\ afterSkip' = "none"
    /\ endedBy' = "none"
    /\ IF Falsy(st.generatedPrompt)
       THEN LET st1 == [st EXCEPT !.status = "prompting", !.lastFailedStep = "prompting"]
            IN  /\ s' = st1
                /\ store' = <<st1>>
                /\ emitted' = Append(IF isResume /\ pc = "askExtend" THEN emitted ELSE <<>>,
                                     Ev("agent_start", "prompt-generator"))
                /\ calls' = Append(IF isResume /\ pc = "askExtend" THEN calls ELSE <<>>,
                                   Call("prompt-generator", st1.iteration))
                /\ feedback' = FALSE
                /\ uncommitted' = "prompting"
                /\ pc' = "awaitPrompt"
       ELSE /\ s' = st
            /\ store' = stored
            /\ emitted' = IF isResume /\ pc = "askExtend" THEN emitted ELSE <<>>
            /\ calls' = IF isResume /\ pc = "askExtend" THEN calls ELSE <<>>
            /\ feedback' = ResumeFeedback(isResume, st.history)
            /\ UNCHANGED uncommitted
            /\ pc' = "loopHead"

\* a new session is started
Start ==
    /\ pc = "idle"
    /\ \E m \in 1..MaxIterations, i \in BOOLEAN :
        /\ interactive' = i
        /\ Enter(FreshState(m), FALSE, store)
    /\ extendedAt' = NoExt
    /\ UNCHANGED <<resumeStep, resumeIter, resumeMax, resumes, extensions>>
    /\ answer' = "none"
    /\ UNCHANGED OthersE

\* the process dies during a run
EngineCrash ==
    /\ pc \notin {"idle", "done", "dead"}
    /\ pc' = "dead"
    /\ UNCHANGED <<s, store, interactive, resumed, resumingFromStep,
                   resumingIteration, feedback, shouldSkip, reviewOut, calls,
                   resumeStep, resumeIter, resumeMax, afterSkip, resumes, extensions,
                   emitted, endedBy, extendedAt, uncommitted>>
    /\ answer' = "none"
    /\ UNCHANGED OthersE

\* the session is resumed from its stored record
Resume ==
    /\ pc \in {"done", "dead"}
    /\ resumes < MaxResumes
    /\ store # <<>>
    /\ \E i \in BOOLEAN : interactive' = i
    /\ resumeStep' = store[1].lastFailedStep
    /\ resumeIter' = store[1].iteration
    /\ resumeMax' = store[1].maxIterations
    /\ resumes' = resumes + 1
    /\ Enter(store[1], TRUE, store)
    /\ extendedAt' = NoExt
    /\ UNCHANGED extensions
    /\ answer' = "none"
    /\ UNCHANGED OthersE

\* status failed is saved and the run returns, having emitted evs
Fail(st, evs, why) ==
    /\ s' = [st EXCEPT !.status = "failed"]
    /\ store' = <<[st EXCEPT !.status = "failed"]>>
    /\ emitted' = emitted \o evs
    /\ endedBy' = why
    /\ UNCHANGED uncommitted
    /\ pc' = "done"

\* runCodexPromptGenerator returns
PromptReturn ==
    /\ pc = "awaitPrompt"
    /\ \E ok \in BOOLEAN, out \in {"text", "empty"} :
        IF ~ok
        THEN Fail(s, <<Ev("agent_complete", "prompt-generator"), Ev("error", "fatal")>>,
                  "agentFailure")
        ELSE LET st1 == [s EXCEPT !.generatedPrompt = out,
                                  !.lastFailedStep = NoStep,
                                  !.history = Push(@, Entry("prompt-generator", 0, "none"))]
             IN  /\ s' = st1
                 /\ store' = <<st1>>
                 /\ emitted' = Append(emitted, Ev("agent_complete", "prompt-generator"))
                 /\ uncommitted' = NoStep
                 /\ UNCHANGED endedBy
                 /\ pc' = "promptSaved"
    /\ UNCHANGED <<interactive, resumed, resumingFromStep, resumingIteration,
                   feedback, shouldSkip, reviewOut, calls, resumeStep, resumeIter,
                   resumeMax, afterSkip, resumes, extensions, extendedAt>>
    /\ answer' = "none"
    /\ UNCHANGED OthersE

\* after the prompt is saved: the gate of an interactive run, the feedback of a resumed one
AfterPrompt ==
    /\ pc = "promptSaved"
    /\ IF interactive
       THEN /\ pc' = "askProceed"
            /\ UNCHANGED feedback
       ELSE /\ pc' = "loopHead"
            /\ feedback' = ResumeFeedback(resumed, s.history)
    /\ UNCHANGED <<s, store, interactive, resumed, resumingFromStep,
                   resumingIteration, shouldSkip, reviewOut, calls, resumeStep,
                   resumeIter, resumeMax, afterSkip, resumes, extensions,
                   emitted, endedBy, extendedAt, uncommitted>>
    /\ answer' = "none"
    /\ UNCHANGED OthersE

\* onQuestion("Proceed with implementation?") resolves
ProceedAnswer ==
    /\ pc = "askProceed"
    /\ \E yes \in BOOLEAN :
        /\ answer' = IF yes THEN "yes" ELSE "no"
        /\ IF Proceeds(yes)
           THEN /\ pc' = "loopHead"
                /\ feedback' = ResumeFeedback(resumed, s.history)
                /\ UNCHANGED <<s, store, emitted, endedBy, uncommitted>>
           ELSE /\ Fail(s, <<>>, "abort")
                /\ UNCHANGED feedback
    /\ UNCHANGED <<interactive, resumed, resumingFromStep, resumingIteration,
                   shouldSkip, reviewOut, calls, resumeStep, resumeIter,
                   resumeMax, afterSkip, resumes, extensions, extendedAt>>
    /\ UNCHANGED OthersE

\* the review step up to its await of runCodexReview
BeginReview(st) ==
    LET st1 == [st EXCEPT !.status = "reviewing", !.lastFailedStep = "reviewing"]
    IN  /\ s' = st1
        /\ store' = <<st1>>
        /\ calls' = Append(calls, Call("reviewer", st1.iteration))
        /\ emitted' = Append(emitted, Ev("agent_start", "reviewer"))
        /\ uncommitted' = "reviewing"
        /\ UNCHANGED endedBy
        /\ pc' = "awaitReview"

\* the head of the while loop, up to the next await
LoopHead ==
    /\ pc = "loopHead"
    /\ afterSkip' = "none"
    /\ IF LoopCondition(s)
       THEN LET skip == resumingFromStep = "reviewing" /\ s.iteration = resumingIteration
            IN  /\ shouldSkip' = skip
                /\ IF skip
                   THEN BeginReview(s)
                   ELSE LET st1 == [s EXCEPT !.iteration = @ + 1,
                                             !.status = "implementing",
                                             !.lastFailedStep = "implementing"]
                        IN  /\ s' = st1
                            /\ store' = <<st1>>
                            /\ uncommitted' = "implementing"
                            /\ IF interactive /\ st1.iteration > 1 /\ feedback
                               THEN /\ pc' = "askContinue"
                                    /\ UNCHANGED <<calls, emitted, endedBy>>
                               ELSE /\ pc' = "awaitImpl"
                                    /\ calls' = Append(calls, Call("implementer", st1.iteration))
                                    /\ emitted' = Append(emitted, Ev("agent_start", "implementer"))
                                    /\ UNCHANGED endedBy
       ELSE /\ UNCHANGED <<shouldSkip, calls>>
            /\ IF interactive
               THEN /\ pc' = "askExtend"
                    /\ UNCHANGED <<s, store, emitted, endedBy, uncommitted>>
               ELSE Fail(s, <<Ev("complete", "failed")>>, "exhausted")
    /\ UNCHANGED <<interactive, resumed, resumingFromStep, resumingIteration,
                   feedback, reviewOut, resumeStep, resumeIter, resumeMax,
                   resumes, extensions, extendedAt>>
    /\ answer' = "none"
    /\ UNCHANGED OthersE

\* onQuestion("Continue with next iteration?") resolves
ContinueAnswer ==
    /\ pc = "askContinue"
    /\ \E yes \in BOOLEAN :
        /\ answer' = IF yes THEN "yes" ELSE "no"
        /\ IF Proceeds(yes)
           THEN /\ pc' = "awaitImpl"
                /\ calls' = Append(calls, Call("implementer", s.iteration))
                /\ emitted' = Append(emitted, Ev("agent_start", "implementer"))
                /\ UNCHANGED <<s, store, endedBy, uncommitted>>
           ELSE /\ Fail(s, <<>>, "abort")
                /\ UNCHANGED calls
    /\ UNCHANGED <<interactive, resumed, resumingFromStep, resumingIteration,
                   feedback, shouldSkip, reviewOut, resumeStep, resumeIter,
                   resumeMax, afterSkip, resumes, extensions, extendedAt>>
    /\ UNCHANGED OthersE

\* runClaude returns
ImplReturn ==
    /\ pc = "awaitImpl"
    /\ \E ok \in BOOLEAN :
        IF ~ok
        THEN Fail(s, <<Ev("agent_complete", "implementer"), Ev("error", "fatal")>>,
                  "agentFailure")
        ELSE LET st1 == [s EXCEPT !.history = Push(@, Entry("implementer", s.iteration, "none")),
                                  !.lastFailedStep = NoStep]
             IN  /\ s' = st1
                 /\ store' = <<st1>>
                 /\ emitted' = Append(emitted, Ev("agent_complete", "implementer"))
                 /\ uncommitted' = NoStep
                 /\ UNCHANGED endedBy
                 /\ pc' = "implSaved"
    /\ UNCHANGED <<interactive, resumed, resumingFromStep, resumingIteration,
                   feedback, shouldSkip, reviewOut, calls, resumeStep, resumeIter,
                   resumeMax, afterSkip, resumes, extensions, extendedAt>>
    /\ answer' = "none"
    /\ UNCHANGED OthersE

\* after the implementation is saved: the review step begins
ReviewStart ==
    /\ pc = "implSaved"
    /\ BeginReview(s)
    /\ UNCHANGED <<interactive, resumed, resumingFromStep, resumingIteration,
                   feedback, shouldSkip, reviewOut, resumeStep, resumeIter,
                   resumeMax, afterSkip, resumes, extensions, extendedAt>>
    /\ answer' = "none"
    /\ UNCHANGED OthersE

\* runCodexReview returns
ReviewReturn ==
    /\ pc = "awaitReview"
    /\ \E ok \in BOOLEAN, out \in {"approve", "reject", "empty"} :
        IF ~ok
        THEN /\ Fail(s, <<Ev("agent_complete", "reviewer"), Ev("error", "fatal")>>,
                     "agentFailure")
             /\ UNCHANGED reviewOut
        ELSE LET st1 == [s EXCEPT !.history = Push(@, Entry("reviewer", s.iteration, out)),
                                  !.lastFailedStep = NoStep]
             IN  /\ s' = st1
                 /\ store' = <<st1>>
                 /\ emitted' = Append(emitted, Ev("agent_complete", "reviewer"))
                 /\ uncommitted' = NoStep
                 /\ UNCHANGED endedBy
                 /\ reviewOut' = out
                 /\ pc' = "reviewSaved"
    /\ UNCHANGED <<interactive, resumed, resumingFromStep, resumingIteration,
                   feedback, shouldSkip, calls, resumeStep, resumeIter,
                   resumeMax, afterSkip, resumes, extensions, extendedAt>>
    /\ answer' = "none"
    /\ UNCHANGED OthersE

\* after the review is saved: the approval check and the end of the loop pass
AfterReview ==
    /\ pc = "reviewSaved"
    /\ IF IsApproved(reviewOut)
       THEN /\ s' = [s EXCEPT !.status = "approved"]
            /\ store' = <<[s EXCEPT !.status = "approved"]>>
            /\ pc' = "done"
            /\ emitted' = Append(emitted, Ev("complete", "approved"))
            /\ endedBy' = "approved"
            /\ afterSkip' = IF shouldSkip THEN "approved" ELSE "none"
            /\ UNCHANGED <<feedback, resumingFromStep, resumingIteration>>
       ELSE /\ feedback' = HasFeedback(reviewOut)
            /\ resumingFromStep' = IF shouldSkip THEN NoStep ELSE resumingFromStep
            /\ resumingIteration' = IF shouldSkip THEN 0 ELSE resumingIteration
            /\ s' = SkipCompensation(s, shouldSkip)
            /\ afterSkip' = IF shouldSkip THEN "rejected" ELSE "none"
            /\ pc' = "loopHead"
            /\ UNCHANGED <<store, emitted, endedBy>>
    /\ UNCHANGED <<interactive, resumed, shouldSkip, reviewOut, calls,
                   resumeStep, resumeIter, resumeMax, resumes, extensions,
                   extendedAt, uncommitted>>
    /\ answer' = "none"
    /\ UNCHANGED OthersE

\* onQuestion("Continue with additional iterations?") resolves
ExtendAnswer ==
    /\ pc = "askExtend"
    /\ \E yes \in BOOLEAN :
        /\ answer' = IF yes THEN "yes" ELSE "no"
        /\ IF Proceeds(yes)
           THEN /\ extensions < MaxExtensions
                /\ extensions' = extensions + 1
                /\ extendedAt' = [max |-> s.maxIterations, calls |-> Len(calls)]
                /\ LET st1 == [s EXCEPT !.maxIterations = @ + 3, !.lastFailedStep = NoStep]
                   IN  Enter(st1, TRUE, <<st1>>)
           ELSE /\ Fail(s, <<Ev("complete", "failed")>>, "exhausted")
                /\ UNCHANGED <<extensions, resumed, resumingFromStep, resumingIteration,
                               feedback, shouldSkip, reviewOut, calls, afterSkip,
                               extendedAt>>
    /\ UNCHANGED <<interactive, resumeStep, resumeIter, resumeMax, resumes>>
    /\ UNCHANGED OthersE

\* the save the run's next step awaits rejects (Bun.write fails, or the state
\* directory cannot be made): saveState has no error handler and orchestrate
\* awaits it bare, so the rejection leaves orchestrate; nothing is written and
\* the caller gets no state
SaveStateThrows ==
    /\ pc \in {"awaitPrompt", "loopHead", "awaitImpl", "implSaved", "awaitReview"}
    /\ pc = "loopHead" => (LoopCondition(s) \/ ~interactive)
    /\ pc' = "threw"
    /\ endedBy' = "threw"
    /\ answer' = "none"
    /\ UNCHANGED <<s, store, interactive, resumed, resumingFromStep,
                   resumingIteration, feedback, shouldSkip, reviewOut, calls,
                   resumeStep, resumeIter, resumeMax, afterSkip, resumes, extensions,
                   emitted, extendedAt, uncommitted>>
    /\ UNCHANGED OthersE

NextE ==
    \/ Start
    \/ EngineCrash
    \/ Resume
    \/ PromptReturn
    \/ AfterPrompt
    \/ ProceedAnswer
    \/ LoopHead
    \/ ContinueAnswer
    \/ ImplReturn
    \/ ReviewStart
    \/ ReviewReturn
    \/ AfterReview
    \/ ExtendAnswer

(***************************************************************************)
(* EVENT BUS                                                               *)
(* publish and subscribe are synchronous. A handler may publish in turn;   *)
(* the model lets the handler of a subscription being replayed to do so    *)
(* (ReplayStep), which is why subscribe is cut at each replayed event. No  *)
(* other bus operation runs while a replay is in progress.                 *)
(***************************************************************************)
OthersB == <<varsQ, varsE, varsS, varsC, varsA>>

Sessions == {"A", "B"}

Event(sessionId, type, n) == [sessionId |-> sessionId, type |-> type, n |-> n]

NoReplay == [active |-> FALSE, sub |-> 0, session |-> "A", arr |-> <<>>,
             idx |-> 0, aliased |-> FALSE]

NoReg == [key |-> "*", replayBuffered |-> FALSE, index |-> 0, fresh |-> FALSE,
          snapshot |-> <<>>, nested |-> FALSE]

RECURSIVE SelectSeq2(_, _)
\* buffer.filter((b) => b.timestamp > cutoff)
SelectSeq2(buf, cutoff) ==
    IF buf = <<>> THEN <<>>
    ELSE IF Head(buf).timestamp > cutoff
         THEN <<Head(buf)>> \o SelectSeq2(Tail(buf), cutoff)
         ELSE SelectSeq2(Tail(buf), cutoff)

\* a cleanBuffer that keeps the oldest events
CleanBufferOldest(buf, t) ==
    LET filtered == SelectSeq2(buf, t - EVENT_BUFFER_TTL_MS)
    IN  IF Len(filtered) > EVENT_BUFFER_MAX_SIZE
        THEN SubSeq(filtered, 1, EVENT_BUFFER_MAX_SIZE)
        ELSE filtered

\* cleanBuffer: the array it leaves in the map for one session
CleanBuffer(buf, t) ==
    LET filtered == SelectSeq2(buf, t - EVENT_BUFFER_TTL_MS)
    IN  IF Len(filtered) > EVENT_BUFFER_MAX_SIZE
        THEN SubSeq(filtered, Len(filtered) - EVENT_BUFFER_MAX_SIZE + 1, Len(filtered))
        ELSE filtered

\* publish buffers every event
ShouldBufferAll(e) == TRUE

\* publish buffers the pings only
ShouldBufferPings(e) == e.type = "ping"

\* publish buffers the event unless it is a ping
ShouldBuffer(e) == e.type # "ping"

\* bufferEvent: push, then cleanBuffer
BufferEvent(bufs, e, t) ==
    [bufs EXCEPT ![e.sessionId] =
        CleanBuffer(Append(@, [event |-> e, timestamp |-> t]), t)]

\* a publish loop that invokes every subscription
MatchesAll(sub, e) == TRUE

Matches(sub, e) == sub.sessionId = "*" \/ sub.sessionId = e.sessionId

\* a handler call left bare: what it throws leaves the loop
NoTryCatch(thrown) == thrown

\* try { handler(event) } catch { console.error }: nothing thrown leaves the statement
TryCatch(thrown) == FALSE

RECURSIVE Deliver(_, _, _, _)
\* the loop of publish over the subscriptions: each matching handler gets e;
\* the handlers of throwers throw
Deliver(subs, e, rcv, throwers) ==
    IF subs = <<>> THEN [rcv |-> rcv, propagated |-> FALSE]
    ELSE LET sub == Head(subs)
             rcv1 == IF Matches(sub, e)
                     THEN [rcv EXCEPT ![sub.id] = Append(@, e)]
                     ELSE rcv
         IN  IF TryCatch(Matches(sub, e) /\ sub.id \in throwers)
             THEN [rcv |-> rcv1, propagated |-> TRUE]
             ELSE Deliver(Tail(subs), e, rcv1, throwers)

SubIds(subs) == {subs[i].id : i \in 1..Len(subs)}

\* no handler was unsubscribed during a publish
NoUnsubscribed == [skipped |-> {}, late |-> {}]

\* subscriptions.delete(id)
Delete(subs, id) == SelectSeq(subs, LAMBDA sub : sub.id # id)

\* a loop over a copy of the subscriptions made before the first handler ran
VisitsCopied(sub, removed) == TRUE

\* for (const subscription of this.subscriptions.values()): the iterator of
\* a Map does not visit an entry deleted before its turn
Visits(sub, removed) == sub.id \notin removed

RECURSIVE DeliverUnsub(_, _, _, _, _)
\* the loop of publish when the handler of subscription i calls the
\* unsubscribe functions of the subscriptions unsub[i]; removed are the ids
\* deleted so far. skipped: the matching subscriptions not visited because
\* deleted; late: those whose handler ran after their deletion
DeliverUnsub(subs, e, rcv, unsub, removed) ==
    IF subs = <<>> THEN [rcv |-> rcv, removed |-> removed, skipped |-> {}, late |-> {}]
    ELSE LET sub == Head(subs)
             invoked == Visits(sub, removed) /\ Matches(sub, e)
             rcv1 == IF invoked THEN [rcv EXCEPT ![sub.id] = Append(@, e)] ELSE rcv
             removed1 == IF invoked THEN removed \cup unsub[sub.id] ELSE removed
             rest == DeliverUnsub(Tail(subs), e, rcv1, unsub, removed1)
         IN  [rest EXCEPT
                !.skipped = @ \cup (IF ~invoked /\ Matches(sub, e) THEN {sub.id} ELSE {}),
                !.late = @ \cup (IF invoked /\ sub.id \in removed THEN {sub.id} ELSE {})]

\* publish(e) while the replay loop rp is running (or none is): the array the
\* loop iterates is the session's buffer array until cleanBuffer replaces it
PublishCore(e, rp) ==
    LET hit == rp.active /\ rp.aliased /\ rp.session = e.sessionId /\ ShouldBuffer(e)
    IN  [bufs |-> IF ShouldBuffer(e) THEN BufferEvent(eventBuffers, e, now)
                  ELSE eventBuffers,
         arr |-> IF hit THEN Append(rp.arr, [event |-> e, timestamp |-> now])
                 ELSE rp.arr,
         aliased |-> rp.aliased /\ ~hit]

BInit ==
    /\ subscriptions = <<>>
    /\ subscriptionCounter = 0
    /\ eventBuffers = [x \in Sessions |-> <<>>]
    /\ now = 0
    /\ replay = NoReplay
    /\ received = [i \in 1..MaxSubs |-> <<>>]
    /\ published = [x \in Sessions |-> <<>>]
    /\ reg = [i \in 1..MaxSubs |-> NoReg]
    /\ nextEvent = 1
    /\ threw = FALSE
    /\ propagated = FALSE
    /\ midPublish = NoUnsubscribed

RECURSIVE NonPing(_)
NonPing(q) ==
    IF q = <<>> THEN <<>>
    ELSE IF Head(q).type = "ping" THEN NonPing(Tail(q))
         ELSE <<Head(q)>> \o NonPing(Tail(q))

Events(q) == [i \in 1..Len(q) |-> q[i].event]

\* publish(event), called from outside any handler
Publish ==
    /\ ~replay.active
    /\ nextEvent <= MaxEvents
    /\ \E x \in Sessions, type \in {"log", "ping"}, throwers \in SUBSET SubIds(subscriptions) :
        LET e == Event(x, type, nextEvent)
            r == PublishCore(e, replay)
            d == Deliver(subscriptions, e, received, throwers)
        IN  /\ eventBuffers' = r.bufs
            /\ received' = d.rcv
            /\ propagated' = (propagated \/ d.propagated)
            /\ threw' = \E i \in 1..Len(subscriptions) :
                            Matches(subscriptions[i], e) /\ subscriptions[i].id \in throwers
            /\ published' = [published EXCEPT ![x] = Append(@, [event |-> e, at |-> now])]
    /\ nextEvent' = nextEvent + 1
    /\ UNCHANGED <<subscriptions, subscriptionCounter, now, replay, reg>>
    /\ UNCHANGED midPublish
    /\ UNCHANGED OthersB

\* subscribe(sessionId, handler, replayBuffered) up to its first replayed event
Subscribe ==
    /\ ~replay.active
    /\ subscriptionCounter < MaxSubs
    /\ \E key \in Sessions \cup {"*"}, replayBuffered \in BOOLEAN :
        LET id == subscriptionCounter + 1
            doReplay == replayBuffered /\ key # "*"
            buffered == IF doReplay THEN CleanBuffer(eventBuffers[key], now) ELSE <<>>
            before == IF key = "*" THEN <<>> ELSE published[key]
        IN  /\ subscriptionCounter' = id
            /\ subscriptions' = Append(subscriptions, [id |-> id, sessionId |-> key])
            /\ eventBuffers' = IF doReplay
                               THEN [eventBuffers EXCEPT ![key] = buffered]
                               ELSE eventBuffers
            /\ replay' = IF buffered # <<>>
                         THEN [active |-> TRUE, sub |-> id, session |-> key,
                               arr |-> buffered, idx |-> 1, aliased |-> TRUE]
                         ELSE NoReplay
            /\ reg' = [reg EXCEPT ![id] =
                        [key |-> key, replayBuffered |-> replayBuffered,
                         index |-> Len(before),
                         fresh |-> /\ \A i \in 1..Len(before) :
                                        before[i].event.type # "ping"
                                            => before[i].at > now - EVENT_BUFFER_TTL_MS
                                   /\ Len(NonPing(Events(before))) < EVENT_BUFFER_MAX_SIZE,
                         snapshot |-> Events(buffered),
                         nested |-> FALSE]]
    /\ threw' = FALSE
    /\ UNCHANGED <<now, received, published, nextEvent, propagated>>
    /\ UNCHANGED midPublish
    /\ UNCHANGED OthersB

\* one pass of the replay loop: the handler gets the event, may publish, and
\* may throw
ReplayStep ==
    /\ replay.active
    /\ \E thrown \in BOOLEAN :
        LET e == replay.arr[replay.idx].event
            rcv1 == [received EXCEPT ![replay.sub] = Append(@, e)]
            escaped == TryCatch(thrown)
        IN  /\ threw' = thrown
            /\ propagated' = (propagated \/ escaped)
            /\ \/ /\ received' = rcv1
                  /\ replay' = IF replay.idx < Len(replay.arr) /\ ~escaped
                               THEN [replay EXCEPT !.idx = @ + 1]
                               ELSE NoReplay
                  /\ UNCHANGED <<eventBuffers, published, reg, nextEvent>>
               \/ /\ nextEvent <= MaxEvents
                  /\ \E x \in Sessions :
                        LET e2 == Event(x, "log", nextEvent)
                            r == PublishCore(e2, replay)
                            d == Deliver(subscriptions, e2, rcv1, {})
                        IN  /\ eventBuffers' = r.bufs
                            /\ received' = d.rcv
                            /\ published' = [published EXCEPT ![x] =
                                                Append(@, [event |-> e2, at |-> now])]
                            /\ replay' = IF replay.idx < Len(r.arr) /\ ~escaped
                                         THEN [replay EXCEPT !.idx = @ + 1,
                                                             !.arr = r.arr,
                                                             !.aliased = r.aliased]
                                         ELSE NoReplay
                  /\ reg' = [reg EXCEPT ![replay.sub].nested = TRUE]
                  /\ nextEvent' = nextEvent + 1
    /\ UNCHANGED <<subscriptions, subscriptionCounter, now>>
    /\ UNCHANGED midPublish
    /\ UNCHANGED OthersB

\* publish(event), called from outside any handler, when handlers call
\* unsubscribe functions
PublishUnsubscribing ==
    /\ ~replay.active
    /\ nextEvent <= MaxEvents
    /\ \E x \in Sessions, unsub \in [1..MaxSubs -> SUBSET (1..subscriptionCounter)] :
        LET e == Event(x, "log", nextEvent)
            r == PublishCore(e, replay)
            d == DeliverUnsub(subscriptions, e, received, unsub, {})
        IN  /\ \E i \in SubIds(subscriptions) : unsub[i] # {}
            /\ eventBuffers' = r.bufs
            /\ received' = d.rcv
            /\ subscriptions' = SelectSeq(subscriptions, LAMBDA sub : sub.id \notin d.removed)
            /\ midPublish' = [skipped |-> midPublish.skipped \cup d.skipped,
                              late |-> midPublish.late \cup d.late]
            /\ published' = [published EXCEPT ![x] = Append(@, [event |-> e, at |-> now])]
    /\ nextEvent' = nextEvent + 1
    /\ threw' = FALSE
    /\ UNCHANGED <<subscriptionCounter, now, replay, reg, propagated>>
    /\ UNCHANGED OthersB

\* a function subscribe returned is called, for the first time or again
Unsubscribe ==
    /\ ~replay.active
    /\ \E id \in 1..subscriptionCounter :
        subscriptions' = Delete(subscriptions, id)
    /\ threw' = FALSE
    /\ UNCHANGED <<subscriptionCounter, eventBuffers, now, replay, received,
                   published, reg, nextEvent, propagated>>
    /\ UNCHANGED midPublish
    /\ UNCHANGED OthersB

\* getBufferedEvents(sessionId), called from outside the bus
GetBufferedEvents ==
    /\ ~replay.active
    /\ \E x \in Sessions :
        eventBuffers' = [eventBuffers EXCEPT ![x] = CleanBuffer(@, now)]
    /\ threw' = FALSE
    /\ UNCHANGED <<subscriptions, subscriptionCounter, now, replay, received,
                   published, reg, nextEvent, propagated>>
    /\ UNCHANGED midPublish
    /\ UNCHANGED OthersB

\* time passes (never inside a synchronous call)
Tick ==
    /\ ~replay.active
    /\ now < MaxTime
    /\ now' = now + 1
    /\ threw' = FALSE
    /\ UNCHANGED <<subscriptions, subscriptionCounter, eventBuffers, replay,
                   received, published, reg, nextEvent, propagated>>
    /\ UNCHANGED midPublish
    /\ UNCHANGED OthersB

NextB ==
    \/ Publish
    \/ Subscribe
    \/ ReplayStep
    \/ Unsubscribe
    \/ GetBufferedEvents
    \/ Tick

(***************************************************************************)
(* APPROVAL PREDICATE                                                      *)
(* isApproved of agents/codex.ts on reviewer outputs, which are sequences  *)
(* of characters put together from the pieces of Parts.                    *)
(***************************************************************************)
OthersA == <<varsQ, varsE, varsB, varsS, varsC>>

\* the letters of the outputs, in lower and in upper case
LowerCase == <<"a", "d", "e", "g", "h", "i", "k", "l", "m", "n", "o", "p", "r", "s", "t", "v", "x", "y">>

UpperCase == <<"A", "D", "E", "G", "H", "I", "K", "L", "M", "N", "O", "P", "R", "S", "T", "V", "X", "Y">>

\* the pieces of the reviewer outputs
Parts == {<<"a", "p", "p", "r", "o", "v", "e", "d">>,
          <<"A", "P", "P", "R", "O", "V", "E", "D">>,
          <<"A", "p", "P", "r", "O", "v", "E", "d">>,
          <<"a", "p", "p", "r", "o", "v", "e">>,
          <<"d">>,
          <<"n", "o", "t", " ">>,
          <<" ", "y", "e", "t">>,
          <<"l", "g", "t", "m">>,
          <<"L", "G", "T", "M">>,
          <<"l", "g">>,
          <<"t", "m">>,
          <<"L", "o", "o", "k", "s">>,
          <<"l", "o", "o", "k", "s">>,
          <<" ">>,
          <<"g", "o", "o", "d">>,
          <<"G", "O", "O", "D">>,
          <<",", " ", "s", "h", "i", "p", " ", "i", "t">>,
          <<"n", "e", "e", "d", "s", " ", "f", "i", "x">>}

RECURSIVE Outputs(_)
\* the outputs made of at most n pieces
Outputs(n) ==
    IF n = 0 THEN {<<>>}
    ELSE Outputs(n - 1) \cup {o \o p : o \in Outputs(n - 1), p \in Parts}

\* a toUpperCase that leaves the string as it is
toUpperCaseNone(str) == str

\* String.prototype.toUpperCase: lower-case letters become their upper-case
\* letters, every other character stays
toUpperCase(str) ==
    [i \in 1..Len(str) |->
        IF \E k \in 1..Len(LowerCase) : LowerCase[k] = str[i]
        THEN UpperCase[CHOOSE k \in 1..Len(LowerCase) : LowerCase[k] = str[i]]
        ELSE str[i]]

\* String.prototype.includes
includes(str, sub) ==
    \E i \in 1..(Len(str) - Len(sub) + 1) : SubSeq(str, i, i + Len(sub) - 1) = sub

\* isApproved(reviewOutput)
isApproved(out) ==
    LET normalizedOutput == toUpperCase(out)
    IN  \/ includes(normalizedOutput, <<"A", "P", "P", "R", "O", "V", "E", "D">>)
        \/ includes(normalizedOutput, <<"L", "G", "T", "M">>)
        \/ includes(normalizedOutput, <<"L", "O", "O", "K", "S", " ", "G", "O", "O", "D">>)

AInit ==
    /\ reviewOutput = <<>>
    /\ verdict = "none"

\* isApproved is called on the output
Judge ==
    /\ verdict = "none"
    /\ verdict' = IF isApproved(reviewOutput) THEN "approved" ELSE "rejected"
    /\ UNCHANGED reviewOutput
    /\ UNCHANGED OthersA

NextA == Judge

(***************************************************************************)
(* SERVER: PENDING QUESTIONS                                               *)
(* The registry of server.ts: activeSessions is a Map, iterated in         *)
(* insertion order, whose entry for a session holds its pending question   *)
(* (the resolver of the promise an engine awaits). Sessions are started by *)
(* POST /sessions and resumed by POST /sessions/:id/resume; the two pass   *)
(* different onQuestion callbacks to the engine.                           *)
(***************************************************************************)
OthersS == <<varsQ, varsE, varsB, varsC, varsA>>

NoSession == "none"

NoRespond == [target |-> NoSession, asker |-> NoSession, answer |-> FALSE]

\* getOrCreateSession(sessionId) on the keys of the Map
GetOrCreateSession(as, id) ==
    IF \E i \in 1..Len(as) : as[i] = id THEN as ELSE Append(as, id)

\* the entries the loop of the started session's onQuestion can take
FreeEntries(as, pq) == {i \in 1..Len(as) : pq[as[i]] = NoSession}

\* onQuestion of a session started by POST /sessions: the question goes to
\* the first entry of the Map that has no pending question
OnQuestionStarted(as, pq, asker) ==
    IF FreeEntries(as, pq) = {}
    THEN [as |-> as, pq |-> pq]
    ELSE [as |-> as, pq |-> [pq EXCEPT ![as[Min(FreeEntries(as, pq))]] = asker]]

\* onQuestion of a session resumed by POST /sessions/:id/resume
OnQuestionResumed(as, pq, asker) ==
    [as |-> GetOrCreateSession(as, asker), pq |-> [pq EXCEPT ![asker] = asker]]

SInit ==
    /\ activeSessions = <<>>
    /\ pendingQuestion = [id \in Sessions |-> NoSession]
    /\ engines = [id \in Sessions |-> [st |-> "idle", mode |-> "start", asked |-> 0]]
    /\ lastRespond = NoRespond

\* POST /sessions: orchestrate is started; its first event creates the entry
StartSession ==
    \E id \in Sessions :
        /\ engines[id].st = "idle"
        /\ engines' = [engines EXCEPT ![id].st = "running", ![id].mode = "start"]
        /\ activeSessions' = GetOrCreateSession(activeSessions, id)
        /\ lastRespond' = NoRespond
        /\ UNCHANGED pendingQuestion
        /\ UNCHANGED OthersS

\* POST /sessions/:id/resume of a session whose run has returned
ResumeSession ==
    \E id \in Sessions :
        /\ engines[id].st = "done"
        /\ engines[id].asked < MaxQuestions
        /\ engines' = [engines EXCEPT ![id].st = "running", ![id].mode = "resume"]
        /\ lastRespond' = NoRespond
        /\ UNCHANGED <<activeSessions, pendingQuestion>>
        /\ UNCHANGED OthersS

\* the engine of a session calls onQuestion and awaits the promise
AskQuestion ==
    \E id \in Sessions :
        /\ engines[id].st = "running"
        /\ engines[id].asked < MaxQuestions
        /\ engines' = [engines EXCEPT ![id].st = "asking", ![id].asked = @ + 1]
        /\ LET r == IF engines[id].mode = "start"
                    THEN OnQuestionStarted(activeSessions, pendingQuestion, id)
                    ELSE OnQuestionResumed(activeSessions, pendingQuestion, id)
           IN  /\ activeSessions' = r.as
               /\ pendingQuestion' = r.pq
        /\ lastRespond' = NoRespond
        /\ UNCHANGED OthersS

\* POST /sessions/:id/respond
Respond ==
    \E id \in Sessions, yes \in BOOLEAN :
        /\ pendingQuestion[id] # NoSession
        /\ LET asker == pendingQuestion[id]
           IN  /\ engines' = [engines EXCEPT ![asker].st = IF yes THEN "running" ELSE "done"]
               /\ lastRespond' = [target |-> id, asker |-> asker, answer |-> yes]
        /\ pendingQuestion' = [pendingQuestion EXCEPT ![id] = NoSession]
        /\ UNCHANGED activeSessions
        /\ UNCHANGED OthersS

\* the run of a session returns
FinishSession ==
    \E id \in Sessions :
        /\ engines[id].st = "running"
        /\ engines' = [engines EXCEPT ![id].st = "done"]
        /\ lastRespond' = NoRespond
        /\ UNCHANGED <<activeSessions, pendingQuestion>>
        /\ UNCHANGED OthersS

\* GET /sessions/:id/events: a client opens the event stream of a session
ConnectEvents ==
    \E id \in Sessions :
        /\ activeSessions' = GetOrCreateSession(activeSessions, id)
        /\ activeSessions' # activeSessions
        /\ lastRespond' = NoRespond
        /\ UNCHANGED <<pendingQuestion, engines>>
        /\ UNCHANGED OthersS

NextS ==
    \/ StartSession
    \/ ResumeSession
    \/ AskQuestion
    \/ Respond
    \/ FinishSession
    \/ ConnectEvents

(***************************************************************************)
(* STREAMING TRANSPORT                                                     *)
(* createSSEHandler of sse.ts: the callback given to streamSSE, cut at its *)
(* awaits (the write of the connected event, the sleep of its loop), and   *)
(* the keep-alive ticker. streamSSE and the stream belong to the hono      *)
(* library: an awaited stream.writeSSE may resolve or reject.              *)
(***************************************************************************)
OthersC == <<varsQ, varsE, varsB, varsS, varsA>>

StreamIds == 1..MaxStreams

NoStream == [sid |-> NoSession, pc |-> "none", aborted |-> FALSE]

\* incrementConnections(sessionId)
IncrementConnections(ac, sid) == [ac EXCEPT ![sid] = @ + 1]

\* decrementConnections(sessionId); a deleted entry counts 0
DecrementConnections(ac, sid) ==
    [ac EXCEPT ![sid] = IF @ - 1 > 0 THEN @ - 1 ELSE 0]

CInit ==
    /\ streams = [st \in StreamIds |-> NoStream]
    /\ activeConnections = [sid \in Sessions |-> 0]
    /\ subscribed = {}
    /\ pinged = {}

\* a client connects: the callback runs up to its await of the first write
ConnectStream ==
    \E st \in StreamIds, sid \in Sessions :
        /\ streams[st].pc = "none"
        /\ streams' = [streams EXCEPT ![st] = [sid |-> sid, pc |-> "connecting", aborted |-> FALSE]]
        /\ activeConnections' = IncrementConnections(activeConnections, sid)
        /\ pinged' = {}
        /\ UNCHANGED subscribed
        /\ UNCHANGED OthersC

\* the write of the connected event settles: the callback subscribes and
\* enters its loop, or the rejection ends the callback
InitialWrite ==
    \E st \in StreamIds, ok \in BOOLEAN :
        /\ streams[st].pc = "connecting"
        /\ IF ok
           THEN /\ streams' = [streams EXCEPT ![st].pc = "open"]
                /\ subscribed' = subscribed \cup {st}
           ELSE /\ streams' = [streams EXCEPT ![st].pc = "threw"]
                /\ UNCHANGED subscribed
        /\ pinged' = {}
        /\ UNCHANGED activeConnections
        /\ UNCHANGED OthersC

\* the client closes the connection: the stream is aborted
ClientClose ==
    \E st \in StreamIds :
        /\ streams[st].pc \in {"connecting", "open"}
        /\ ~streams[st].aborted
        /\ streams' = [streams EXCEPT ![st].aborted = TRUE]
        /\ pinged' = {}
        /\ UNCHANGED <<activeConnections, subscribed>>
        /\ UNCHANGED OthersC

\* the loop wakes up and finds the stream aborted: the cleanup
Cleanup ==
    \E st \in StreamIds :
        /\ streams[st].pc = "open"
        /\ streams[st].aborted
        /\ streams' = [streams EXCEPT ![st].pc = "closed"]
        /\ subscribed' = subscribed \ {st}
        /\ activeConnections' = DecrementConnections(activeConnections, streams[st].sid)
        /\ pinged' = {}
        /\ UNCHANGED OthersC

\* the keep-alive interval fires
KeepAlive ==
    /\ pinged' = {sid \in Sessions : activeConnections[sid] > 0}
    /\ pinged' # pinged
    /\ UNCHANGED <<streams, activeConnections, subscribed>>
    /\ UNCHANGED OthersC

NextC ==
    \/ ConnectStream
    \/ InitialWrite
    \/ ClientClose
    \/ Cleanup
    \/ KeepAlive

(***************************************************************************)
(* Specifications                                                          *)
(***************************************************************************)
Init == QInit /\ EInit /\ BInit /\ SInit /\ CInit /\ AInit

SpecQueue == Init /\ [][NextQ]_vars

SpecEngine == Init /\ [][NextE]_vars

\* a step of a run in progress: an await of the run resolves and the run goes
\* on to its next await or returns
RunStep ==
    \/ PromptReturn
    \/ AfterPrompt
    \/ ProceedAnswer
    \/ LoopHead
    \/ ContinueAnswer
    \/ ImplReturn
    \/ ReviewStart
    \/ ReviewReturn
    \/ AfterReview
    \/ ExtendAnswer

NextELive ==
    \/ Start
    \/ Resume
    \/ RunStep

\* the engine of a process that stays up and whose saves may fail
NextEFaulty ==
    \/ Start
    \/ Resume
    \/ RunStep
    \/ SaveStateThrows

SpecEngineFaulty == Init /\ [][NextEFaulty]_vars

\* the engine of a process that stays up, when every agent invocation
\* returns, every save completes and every question is answered
SpecEngineLive == Init /\ [][NextELive]_vars /\ WF_vars(RunStep)

\* the queue of a process that stays up
NextQLive ==
    \/ Add
    \/ AddMany
    \/ Remove
    \/ ClearPending
    \/ EngineReturn
    \/ Initialize
    \/ InitLoaded
    \/ InitSaved
    \/ WriteComplete

\* the queue when engine runs return or throw, started writes complete and
\* the awaits of initialize resolve; the strong forms make up for the steps
\* that wait for the bounded set of writes in flight to drain: writes go on
\* completing until the write of an engine return can start, and the write
\* that initialize awaits completes
SpecQueueLive ==
    /\ Init
    /\ [][NextQLive]_vars
    /\ SF_vars(EngineReturn)
    /\ WF_vars(WriteComplete)
    /\ SF_vars(WriteComplete /\ CanWrite(2)')
    /\ WF_vars(WriteComplete /\ \E w \in writes \ writes' : w.init)
    /\ WF_vars(InitLoaded)
    /\ WF_vars(InitSaved)

SpecBus == Init /\ [][NextB]_vars

\* the bus when handlers may call unsubscribe functions during a publish
NextBUnsub ==
    \/ Publish
    \/ PublishUnsubscribing
    \/ Subscribe
    \/ ReplayStep
    \/ Unsubscribe

SpecBusUnsub == Init /\ [][NextBUnsub]_vars

SpecServer == Init /\ [][NextS]_vars

SpecSse == Init /\ [][NextC]_vars

\* isApproved on each of the reviewer outputs of at most MaxParts pieces
InitApproval ==
    /\ QInit /\ EInit /\ BInit /\ SInit /\ CInit
    /\ reviewOutput \in Outputs(MaxParts)
    /\ verdict = "none"

SpecApproval == InitApproval /\ [][NextA]_vars

\* the bus when time passes and a replay loop that was entered runs on;
\* nothing in the code schedules a publish or a read of a buffer
SpecBusLive ==
    /\ Init
    /\ [][NextB]_vars
    /\ WF_vars(ReplayStep)
    /\ WF_vars(Tick)

(***************************************************************************)
(* Claims about the Session Queue (checked under SpecQueue)                *)
(***************************************************************************)
RunningIdx(items) == {i \in 1..Len(items) : items[i].status = "running"}

\* C1: single lane. In every reachable state at most one item of the queue
\* has status running and at most one engine run started by the queue is in
\* flight, under any interleaving of the queue's operations, initialize's
\* awaits included.
C1_SingleLane ==
    /\ Cardinality(RunningIdx(state.items)) <= 1
    /\ Cardinality(lanes) <= 1

\* C6: FIFO. An item is running only when every item inserted before it
\* (the items before it in state.items) is completed or failed.
C6_FifoOrder ==
    \A j \in RunningIdx(state.items) :
        \A i \in 1..(j - 1) : state.items[i].status \in {"completed", "failed"}

IsCleaned(old, new) ==
    /\ Len(new) = Len(old)
    /\ \A i \in 1..Len(old) :
        IF old[i].status = "running"
        THEN new[i] = [id |-> old[i].id, status |-> "failed", error |-> RestartError]
        ELSE new[i] = old[i]

C8_DurableOnReturn ==
    lastOp \in {"add", "addMany", "remove", "clearPending", "engineReturn"} =>
        disk = <<Snapshot(state)>>

(***************************************************************************)
(* Claims about the Orchestration Engine (checked under SpecEngine)        *)
(***************************************************************************)
CallsOf(c) == {n \in 1..Len(calls) : calls[n] = c}

\* C2: exact resume. A run resumed from a record with lastFailedStep =
\* reviewing at iteration k, 1 <= k <= maxIterations, invokes the reviewer
\* for iteration k first (no implementer before it) and exactly once.
C2_ExactResume ==
    (resumeStep = "reviewing" /\ 1 <= resumeIter /\ resumeIter <= resumeMax) =>
        /\ calls # <<>> => calls[1] = Call("reviewer", resumeIter)
        /\ pc = "done" => Cardinality(CallsOf(Call("reviewer", resumeIter))) = 1

C4_NoDoubleIncrement ==
    (/\ resumeStep = "reviewing"
     /\ Len(calls) >= 2
     /\ calls[1] = Call("reviewer", resumeIter)
     /\ calls[2].role = "implementer") => calls[2].iteration = resumeIter + 1

\* C5: a run resumed from a record with lastFailedStep = implementing (or
\* prompting) at iteration i re-runs that step with the iteration unchanged:
\* its first invocation is the implementer (the generator) at iteration i,
\* and a non-interactive run does invoke it, also when i = maxIterations.
C5_ResumeSameStep ==
    /\ (resumeStep = "implementing" /\ calls # <<>>) =>
            calls[1] = Call("implementer", resumeIter)
    /\ (resumeStep = "prompting" /\ calls # <<>>) =>
            calls[1] = Call("prompt-generator", resumeIter)
    /\ (resumeStep = "implementing" /\ ~interactive /\ pc = "done") => calls # <<>>

(***************************************************************************)
(* Event Bus claims                                                        *)
(***************************************************************************)
Registered(i) == \E j \in 1..Len(subscriptions) : subscriptions[j].id = i

Replayed(i) ==
    /\ Registered(i)
    /\ reg[i].replayBuffered
    /\ reg[i].key # "*"
    /\ ~(replay.active /\ replay.sub = i)

\* what was published to the subscription's session before / after it registered
Before(i) == Events(SubSeq(published[reg[i].key], 1, reg[i].index))

After(i) == Events(SubSeq(published[reg[i].key], reg[i].index + 1,
                          Len(published[reg[i].key])))

NoDuplicates(q) == \A a, b \in 1..Len(q) : q[a] = q[b] => a = b

\* C9: a subscriber that registered with replay has received exactly the
\* snapshot of its session's buffer taken at registration, followed by every
\* event published to the session after registration, in publish order and
\* each once; events its own handler published during the replay included.
C9_ReplayAtomic ==
    \A i \in 1..MaxSubs :
        Replayed(i) => received[i] = reg[i].snapshot \o After(i)

\* a subscriber whose handler published during its replay has finished the replay
C9_Witness ==
    \E i \in 1..MaxSubs :
        Replayed(i) /\ reg[i].nested /\ Len(reg[i].snapshot) >= 1

CountType(q, type) == Cardinality({i \in 1..Len(q) : q[i].type = type})

\* C11: a run that returned because an agent invocation returned success =
\* false has status failed persisted and has emitted exactly one error event
\* (fatal) followed by exactly one complete event.
C11_AgentFailureSignalling ==
    (pc = "done" /\ endedBy = "agentFailure") =>
        /\ store # <<>> /\ store[1].status = "failed"
        /\ CountType(emitted, "error") = 1
        /\ CountType(emitted, "complete") = 1
        /\ \E i, j \in 1..Len(emitted) :
                /\ i < j
                /\ emitted[i] = Ev("error", "fatal")
                /\ emitted[j].type = "complete"

\* a run has returned after its reviewer failed in the second iteration
C11_Witness ==
    /\ pc = "done"
    /\ endedBy = "agentFailure"
    /\ s.iteration = 2
    /\ s.history # <<>>
    /\ s.history[Len(s.history)].role = "implementer"

\* C20: a run that has returned has status approved or failed, and it has
\* status approved only if the last review of the history is an approving one.
C20_TerminalStatus ==
    (pc = "done") =>
        /\ s.status \in {"approved", "failed"}
        /\ s.status = "approved" =>
                /\ ReviewIdx(s.history) # {}
                /\ s.history[Max(ReviewIdx(s.history))].out = "approve"

\* a run returned approved by its second review
C20_Witness ==
    /\ pc = "done"
    /\ s.status = "approved"
    /\ Cardinality(ReviewIdx(s.history)) = 2
    /\ s.history[Min(ReviewIdx(s.history))].out = "reject"

(***************************************************************************)
(* Queue claims: the lane goes on                                          *)
(***************************************************************************)
ItemIdx(id) == {i \in 1..Len(state.items) : state.items[i].id = id}

Unfinished(id) ==
    \E i \in ItemIdx(id) : state.items[i].status \in {"pending", "running"}

Finished(id) ==
    \A i \in ItemIdx(id) : state.items[i].status \in {"completed", "failed"}

\* C12: when every engine run returns or throws, an item that is pending or
\* running is later completed or failed, or has left the queue; and the
\* processNext that records the end of a run starts the first pending item.
C12_LaneNeverHalts ==
    /\ \A id \in 1..MaxItems : Unfinished(id) ~> Finished(id)
    /\ [][(lastOp' = "engineReturn" /\ PendingIdx(state.items) # {})
            => state'.items[Min(PendingIdx(state.items))].status = "running"]_vars

\* an item has failed by its engine run and a later item has been started
C12_Witness ==
    \E i, j \in 1..Len(state.items) :
        /\ i < j
        /\ state.items[i].status = "failed"
        /\ state.items[i].error \in {StatusError, ThrownError}
        /\ state.items[j].status \in {"running", "completed"}

(***************************************************************************)
(* Queue claims: item status                                               *)
(***************************************************************************)
Forward(a, b) ==
    \/ a = b
    \/ a = "pending" /\ b = "running"
    \/ a = "running" /\ b \in {"completed", "failed"}

\* C13: in every step of the queue, an item that is in the queue before and
\* after the step keeps its status or moves pending to running, running to
\* completed or running to failed.
C13_StatusForward ==
    [][\A i \in 1..Len(state.items), j \in 1..Len(state'.items) :
            state.items[i].id = state'.items[j].id
                => Forward(state.items[i].status, state'.items[j].status)]_vars

CompletedIds(items) == {items[i].id : i \in {j \in 1..Len(items) : items[j].status = "completed"}}

\* C14: when the engine run of an item returns approved the item is
\* completed, and when it returns another status or throws the item is failed
\* with a non-empty error string; an item becomes completed only by the return
\* of an approved engine run of it (or is loaded as completed from the document).
C14_ResultMatchesRun ==
    /\ [](lastRun # NoRun =>
            \A i \in 1..Len(state.items) :
                state.items[i].id = lastRun.item =>
                    IF lastRun.outcome = "approved"
                    THEN state.items[i].status = "completed"
                    ELSE /\ state.items[i].status = "failed"
                         /\ state.items[i].error # "")
    /\ [][\A id \in CompletedIds(state'.items) :
            \/ id \in CompletedIds(state.items)
            \/ disk # <<>> /\ id \in CompletedIds(disk[1].items)
            \/ lastRun' = [item |-> id, orphan |-> FALSE, outcome |-> "approved"]]_vars

(***************************************************************************)
(* Event Bus claims: isolation, pings, cap, routing                        *)
(***************************************************************************)
\* the event of a publish step made outside any handler
Published(x) == published'[x][Len(published'[x])].event

\* C15: no exception of a handler reaches the caller of publish or subscribe;
\* a publish gives the event once to every matching subscription, whichever
\* handlers throw; and a replay gives the subscriber the whole snapshot,
\* whichever of its calls throw.
C15_FaultIsolation ==
    /\ [](~propagated)
    /\ [][\A x \in Sessions :
            (~replay.active /\ Len(published'[x]) = Len(published[x]) + 1) =>
                \A i \in 1..Len(subscriptions) :
                    received'[subscriptions[i].id] =
                        IF Matches(subscriptions[i], Published(x))
                        THEN Append(received[subscriptions[i].id], Published(x))
                        ELSE received[subscriptions[i].id]]_vars
    /\ [](\A i \in 1..MaxSubs :
            (Replayed(i) /\ ~reg[i].nested) =>
                /\ Len(received[i]) >= Len(reg[i].snapshot)
                /\ SubSeq(received[i], 1, Len(reg[i].snapshot)) = reg[i].snapshot)

\* a handler threw in a publish to two matching subscriptions, and both have
\* the event
C15_Witness ==
    /\ threw
    /\ ~replay.active
    /\ Len(subscriptions) = 2
    /\ \A i \in 1..2 :
        /\ subscriptions[i].sessionId \in {"A", "*"}
        /\ received[subscriptions[i].id] # <<>>
        /\ received[subscriptions[i].id][Len(received[subscriptions[i].id])]
                = Event("A", "log", nextEvent - 1)

RECURSIVE HasPing(_)
HasPing(q) == q # <<>> /\ (Head(q).type = "ping" \/ HasPing(Tail(q)))

\* C16: no session's buffer holds a ping, so no replay delivers one; a ping
\* published outside a handler is given to every subscription whose key is
\* "*" or the ping's session.
C16_PingsNotBuffered ==
    /\ [](\A x \in Sessions : ~HasPing(Events(eventBuffers[x])))
    /\ [](~HasPing(Events(replay.arr)))
    /\ [](\A i \in 1..MaxSubs : ~HasPing(reg[i].snapshot))
    /\ [][\A x \in Sessions :
            (/\ ~replay.active
             /\ Len(published'[x]) = Len(published[x]) + 1
             /\ Published(x).type = "ping") =>
                \A i \in 1..Len(subscriptions) :
                    subscriptions[i].sessionId \in {"*", x} =>
                        received'[subscriptions[i].id] =
                            Append(received[subscriptions[i].id], Published(x))]_vars

\* a subscriber of a session has been given a ping live, and a later
\* subscriber of that session has been replayed to
C16_Witness ==
    \E i, j \in 1..MaxSubs :
        /\ i < j
        /\ Registered(i) /\ reg[i].key = "A" /\ HasPing(received[i])
        /\ Replayed(j) /\ reg[j].key = "A" /\ reg[j].snapshot # <<>>
        /\ HasPing(Before(j))

\* the events of session x published and not expired, oldest first
RECURSIVE Unexpired(_, _)
Unexpired(q, t) ==
    IF q = <<>> THEN <<>>
    ELSE IF Head(q).event.type # "ping" /\ Head(q).at > t - EVENT_BUFFER_TTL_MS
         THEN <<Head(q).event>> \o Unexpired(Tail(q), t)
         ELSE Unexpired(Tail(q), t)

LastN(q, n) == IF Len(q) > n THEN SubSeq(q, Len(q) - n + 1, Len(q)) ELSE q

\* C17: a session's buffer never holds more than the cap; its unexpired part
\* is the most recent unexpired events published to the session, up to the
\* cap, in arrival order; and right after an event is published to the
\* session the buffer is exactly those events.
C17_BufferCap ==
    /\ [](\A x \in Sessions :
            /\ Len(eventBuffers[x]) <= EVENT_BUFFER_MAX_SIZE
            /\ Events(SelectSeq2(eventBuffers[x], now - EVENT_BUFFER_TTL_MS))
                    = LastN(Unexpired(published[x], now), EVENT_BUFFER_MAX_SIZE))
    /\ [][\A x \in Sessions :
            (Len(published'[x]) = Len(published[x]) + 1 /\ Published(x).type # "ping") =>
                Events(eventBuffers'[x])
                    = LastN(Unexpired(published'[x], now'), EVENT_BUFFER_MAX_SIZE)]_vars

\* more unexpired events than the cap were published to a session
C17_Witness ==
    \E x \in Sessions :
        /\ Len(Unexpired(published[x], now)) > EVENT_BUFFER_MAX_SIZE
        /\ Len(eventBuffers[x]) = EVENT_BUFFER_MAX_SIZE

AllExpired(x) ==
    /\ eventBuffers[x] # <<>>
    /\ SelectSeq2(eventBuffers[x], now - EVENT_BUFFER_TTL_MS) = <<>>

\* C18: once all buffered events of a session are older than the TTL, the
\* session's entry is eventually removed from the buffer map.
C18_NoPermanentGrowth ==
    \A x \in Sessions : AllExpired(x) ~> (eventBuffers[x] = <<>>)

\* a session's buffer holds only expired events
C18_Witness == AllExpired("A")

\* C19: a subscription whose key is a session has only been given events of
\* that session, live or by replay; a publish made outside a handler invokes
\* exactly the subscriptions whose key is "*" or the event's session.
C19_Routing ==
    /\ [](\A i \in 1..MaxSubs :
            reg[i].key # "*" =>
                \A k \in 1..Len(received[i]) : received[i][k].sessionId = reg[i].key)
    /\ [][\A x \in Sessions :
            (~replay.active /\ Len(published'[x]) = Len(published[x]) + 1) =>
                \A i \in 1..Len(subscriptions) :
                    LET id == subscriptions[i].id
                    IN  IF subscriptions[i].sessionId \in {"*", x}
                        THEN received'[id] = Append(received[id], Published(x))
                        ELSE received'[id] = received[id]]_vars

\* events of both sessions were published to a subscriber of A and one of "*"
C19_Witness ==
    \E i, j \in 1..MaxSubs :
        /\ Registered(i) /\ reg[i].key = "A" /\ Len(received[i]) = 1
        /\ Registered(j) /\ reg[j].key = "*" /\ Len(received[j]) = 2
        /\ published["A"] # <<>>
        /\ published["B"] # <<>>

(***************************************************************************)
(* Engine claims: loop bound, extension, gates, history, resume marker     *)
(***************************************************************************)
ImplCalls == Cardinality({n \in 1..Len(calls) : calls[n].role = "implementer"})

FreshRun == pc # "idle" /\ resumes = 0 /\ ~interactive

\* C21: a non-interactive run whose agent invocations all return does
\* return; a fresh session has invoked the implementer at most maxIterations
\* times, and a fresh run that ended without an agent failure and without an
\* approval has status failed, iteration = maxIterations and maxIterations
\* implementer invocations behind it.
C21_LoopBound ==
    /\ [](FreshRun =>
            /\ ImplCalls <= s.maxIterations
            /\ s.iteration <= s.maxIterations
            /\ (pc = "done" /\ endedBy \notin {"agentFailure", "approved"}) =>
                    /\ endedBy = "exhausted"
                    /\ s.status = "failed"
                    /\ store = <<s>>
                    /\ s.iteration = s.maxIterations
                    /\ ImplCalls = s.maxIterations)
    /\ (pc \notin {"idle", "done"} /\ ~interactive) ~> (pc = "done")

\* a fresh non-interactive run of three iterations has ended without approval
C21_Witness ==
    /\ FreshRun
    /\ pc = "done"
    /\ endedBy = "exhausted"
    /\ s.maxIterations = 3
    /\ ImplCalls = 3

\* C22: when the user answers yes to the extension question, asked at
\* iteration = maxIterations, maxIterations grows by exactly 3, lastFailedStep
\* is unset in the state and in the store, history, iteration and generated
\* prompt are kept and no agent is invoked before the loop is entered again;
\* the next implementer invocation carries the old maxIterations + 1. When
\* the user answers no, the run returns with status failed persisted.
C22_Extension ==
    /\ [][(pc = "askExtend" /\ pc' \notin {"askExtend", "dead"}) =>
            /\ s.iteration = s.maxIterations
            /\ \/ /\ pc' = "loopHead"
                  /\ s' = [s EXCEPT !.maxIterations = @ + 3, !.lastFailedStep = NoStep]
                  /\ store' = <<s'>>
                  /\ calls' = calls
               \/ /\ pc' = "done"
                  /\ s' = [s EXCEPT !.status = "failed"]
                  /\ store' = <<s'>>
                  /\ calls' = calls]_vars
    /\ [](Len(calls) > extendedAt.calls /\ extendedAt.max > 0 =>
            calls[extendedAt.calls + 1] = Call("implementer", extendedAt.max + 1))

\* a run was extended from maxIterations = 2 and has invoked the implementer
\* for iteration 3
C22_Witness ==
    /\ extendedAt.max = 2
    /\ s.maxIterations = 5
    /\ Len(calls) > extendedAt.calls
    /\ calls[Len(calls)] = Call("implementer", 3)

Asking == pc \in {"askProceed", "askContinue", "askExtend"}

\* C23: while a question of the run is unresolved the run invokes no agent
\* and changes neither its state nor the store; when the question resolves
\* to false the run returns with status failed persisted and without
\* another agent invocation; when it resolves to true the run goes on to
\* the loop or to its next agent invocation.
C23_InteractiveGate ==
    [][Asking =>
        /\ answer' = "none" => UNCHANGED <<s, store, calls>>
        /\ answer' = "no" =>
                /\ pc' = "done"
                /\ s' = [s EXCEPT !.status = "failed"]
                /\ store' = <<s'>>
                /\ calls' = calls
        /\ answer' = "yes" =>
                /\ pc' \in {"loopHead", "awaitImpl", "awaitPrompt"}
                /\ s'.status # "failed" \/ pc = "askExtend"]_vars

\* the user has declined to continue with the second iteration
C23_Witness ==
    /\ answer = "no"
    /\ pc = "done"
    /\ endedBy = "abort"
    /\ s.iteration = 2
    /\ s.status = "failed"

PromptEntries(h) == Cardinality({i \in 1..Len(h) : h[i].role = "prompt-generator"})

\* C25: the stored history of a session holds at most one prompt-generator
\* entry, and once it holds one (a generator invocation has succeeded and
\* was persisted) no run of the session awaits the generator again.
C25_GeneratorOnce ==
    store # <<>> =>
        /\ PromptEntries(store[1].history) <= 1
        /\ PromptEntries(store[1].history) = 1 => pc # "awaitPrompt"

\* a session whose generator succeeded was resumed and its run has gone on to
\* the implementer
C25_Witness ==
    /\ resumes >= 1
    /\ store # <<>>
    /\ PromptEntries(store[1].history) = 1
    /\ pc = "awaitImpl"

\* C26: in the stored record lastFailedStep names the step that was last
\* started and whose result has not been appended to history and persisted,
\* and is unset when there is no such step: it is stored as the step before
\* the step's agent is invoked and stored as unset together with the step's
\* history entry.
C26_WriteAheadMarker ==
    store # <<>> => store[1].lastFailedStep = uncommitted

\* the review of the second iteration was persisted: the marker is unset
C26_Witness ==
    /\ pc = "reviewSaved"
    /\ store = <<s>>
    /\ s.iteration = 2
    /\ s.lastFailedStep = NoStep
    /\ uncommitted = NoStep
    /\ s.history[Len(s.history)] = Entry("reviewer", 2, "reject")

IsPrefix(a, b) == Len(a) <= Len(b) /\ SubSeq(b, 1, Len(a)) = a

NonDecreasing(h) == \A i, j \in 1..Len(h) : i < j => h[i].iteration <= h[j].iteration

\* C27: over the steps of a run, resumes and extensions, the history of the
\* state and of the stored record only grows at its end (no entry is removed
\* or modified), and the iteration numbers of its entries are non-decreasing.
C27_HistoryAppendOnly ==
    /\ [][/\ IsPrefix(s.history, s'.history)
          /\ (store # <<>>) => (store' # <<>> /\ IsPrefix(store[1].history, store'[1].history))]_vars
    /\ [](NonDecreasing(s.history))

\* a resumed session has the entries of two iterations in its history
C27_Witness ==
    /\ resumes >= 1
    /\ Len(s.history) = 5
    /\ s.history[5] = Entry("reviewer", 2, "approve")
    /\ NonDecreasing(s.history)

ReviewCalls == Cardinality({n \in 1..Len(calls) : calls[n].role = "reviewer"})

\* a fresh non-interactive run with maxIterations = 2 has returned, none of
\* its agent invocations failed, its reviewer was invoked twice (so its first
\* output did not approve) and the second output approved
EndToEnd ==
    /\ FreshRun
    /\ s.maxIterations = 2
    /\ pc = "done"
    /\ CountType(emitted, "error") = 0
    /\ ReviewCalls = 2
    /\ reviewOut = "approve"

\* C28 as stated: the run ends with status approved, iteration = 2 and a
\* history of 4 entries.
C28_EndToEnd ==
    EndToEnd =>
        /\ s.status = "approved"
        /\ s.iteration = 2
        /\ Len(s.history) = 4

\* C28 amended: the run ends with status approved, iteration = 2 and a
\* history of 5 entries: the generator's, then the implementer's and the
\* reviewer's of iteration 1 and of iteration 2; the record is persisted.
C28_EndToEndAmended ==
    EndToEnd =>
        /\ s.status = "approved"
        /\ s.iteration = 2
        /\ store = <<s>>
        /\ Len(s.history) = 5
        /\ s.history[1] = Entry("prompt-generator", 0, "none")
        /\ s.history[2] = Entry("implementer", 1, "none")
        /\ s.history[3].role = "reviewer" /\ s.history[3].iteration = 1
        /\ ~IsApproved(s.history[3].out)
        /\ s.history[4] = Entry("implementer", 2, "none")
        /\ s.history[5] = Entry("reviewer", 2, "approve")

\* the run of the example has returned
C28_Witness ==
    /\ EndToEnd
    /\ s.history[3].out = "reject"

Terminal(r) == r.status \in {"approved", "failed"}

\* C30: once the stored record of a session has status approved or failed,
\* no step of the engine changes it and no agent is invoked, unless the step
\* is an interactive iteration extension or belongs to a run that was
\* extended; this includes the steps of a run that was given the record as
\* resumeState.
C30_TerminalImmutability ==
    [][(store # <<>> /\ Terminal(store[1]) /\ extendedAt' = NoExt) =>
            /\ store' = store
            /\ calls' = calls \/ calls' = <<>>]_vars

\* a failed record with iteration = maxIterations was passed back to the
\* engine, whose run returned without an agent invocation
C30_Witness ==
    /\ resumes >= 1
    /\ pc = "done"
    /\ calls = <<>>
    /\ resumeIter = resumeMax
    /\ extendedAt = NoExt
    /\ store = <<s>>
    /\ s.status = "failed"

(***************************************************************************)
(* Claims about the pending questions of the server (SpecServer)           *)
(***************************************************************************)
\* C24: a question asked by the engine of a session is registered under
\* that session, and a respond request for a session resolves only a
\* question asked by that session's engine.
C24_QuestionIsolation ==
    /\ \A id \in Sessions : engines[id].st = "asking" => pendingQuestion[id] = id
    /\ lastRespond.asker # NoSession => lastRespond.asker = lastRespond.target

\* two started sessions run at once and a respond request for one of them
\* has resolved a question
C24_Witness ==
    /\ lastRespond.asker # NoSession
    /\ \A id \in Sessions : engines[id].mode = "start" /\ engines[id].st # "idle"

(***************************************************************************)
(* Claims about the streaming transport (SpecSse)                          *)
(***************************************************************************)
\* the streams of a session that have connected and whose connection is not over
LiveStreams(sid) ==
    {st \in StreamIds : streams[st].sid = sid /\ streams[st].pc \in {"connecting", "open"}}

\* C29: the connection counter of a session equals the number of its
\* streams that have connected and are not over, the handlers subscribed are
\* those of the streams in their loop, and the keep-alive pass pings no
\* session without such a stream: a stream that ended, by the client's close
\* or by a failed write, that of the connected event included, has
\* unsubscribed and decremented the counter once.
C29_ConnectionAccounting ==
    /\ \A sid \in Sessions :
            /\ activeConnections[sid] = Cardinality(LiveStreams(sid))
            /\ LiveStreams(sid) = {} => sid \notin pinged
    /\ subscribed = {st \in StreamIds : streams[st].pc = "open"}

\* two streams of a session connected; one was closed by its client and
\* cleaned up, the other is open and the session is pinged
C29_Witness ==
    \E a, b \in StreamIds :
        /\ streams[a].sid = "A" /\ streams[a].pc = "closed"
        /\ streams[b].sid = "A" /\ streams[b].pc = "open"
        /\ activeConnections["A"] = 1
        /\ pinged = {"A"}

(***************************************************************************)
(* Claims about deletion from the queue                                    *)
(***************************************************************************)
NonPending(q) == SelectSeq(q, LAMBDA it : it.status # "pending")

Without(q, id) == SelectSeq(q, LAMBDA it : it.id # id)

\* C31: in every state the queue reaches, remove(itemId) returns true exactly
\* when an item with that id is pending, and then leaves the former items
\* without that one; when it returns false it leaves the queue state as it was
\* and starts no write. clearPending leaves exactly the non-pending items and
\* returns the number of items that were pending. Both leave the non-pending
\* items, their order and their fields, isProcessing and currentItemId as
\* they were.
C31_OnlyPendingDeleted ==
    /\ \A itemId \in 1..MaxItems :
        LET r == RemoveBody(state, itemId)
        IN  /\ r.ret = (\E i \in 1..Len(state.items) :
                           /\ state.items[i].id = itemId
                           /\ state.items[i].status = "pending")
            /\ r.ret => r.state = [state EXCEPT !.items = Without(@, itemId)]
            /\ ~r.ret => r.state = state /\ ~r.saved
            /\ NonPending(r.state.items) = NonPending(state.items)
    /\ LET c == ClearPendingBody(state)
       IN  /\ c.state = [state EXCEPT !.items = NonPending(@)]
           /\ c.ret = Len(state.items) - Len(NonPending(state.items))

\* remove has just deleted a pending item from a queue that holds a running
\* item and another pending item, so that a further remove or clearPending
\* has items of both kinds before it
C31_Witness ==
    /\ lastOp = "remove"
    /\ \E i \in 1..Len(state.items) : state.items[i].status = "running"
    /\ \E i \in 1..Len(state.items) : state.items[i].status = "pending"

(***************************************************************************)
(* Claims about the items the queue has accepted                           *)
(***************************************************************************)
Ids(q) == [i \in 1..Len(q) |-> q[i].id]

\* C35: a step of the running process other than remove and clearPending
\* keeps every item of the queue's list at its position: the ids of the items
\* before the step are a prefix of the ids after it.
C35_NoItemLost ==
    [][lastOp' \notin {"remove", "clearPending", "crash"} =>
           IsPrefix(Ids(state.items), Ids(state'.items))]_vars

\* C36: in a process that ran initialize to its end before any other
\* operation, whenever no write is in flight, no engine run is awaited and
\* initialize is not under way, queue.json holds the in-memory queue state
\* (or does not exist while the queue has never held an item).
C36_PersistedConverges ==
    (/\ quiet
     /\ initialized
     /\ initPc = "done"
     /\ writes = {}
     /\ lanes = {})
        => \/ disk = <<Snapshot(state)>>
           \/ disk = <<>> /\ state = EmptyState

(***************************************************************************)
(* Claims about the bookkeeping of the queue                               *)
(***************************************************************************)
\* C37: while initialize is not at one of its awaits, isProcessing is true
\* exactly when one item is running, currentItemId is then that item's id and
\* is unset otherwise, and a pending item exists only while isProcessing is
\* true.
C37_Bookkeeping ==
    initPc \in {"idle", "done"} =>
        /\ state.isProcessing <=> Cardinality(RunningIdx(state.items)) = 1
        /\ state.isProcessing =>
               \A i \in RunningIdx(state.items) :
                   state.currentItemId = state.items[i].id
        /\ ~state.isProcessing => state.currentItemId = NoId
        /\ PendingIdx(state.items) # {} => state.isProcessing

\* the bookkeeping of C37 in a process that ran initialize to its end before
\* any other operation
C37_BookkeepingQuiet == quiet => C37_Bookkeeping

(***************************************************************************)
(* Claims about the iteration counter of the engine                        *)
(***************************************************************************)
\* C38: in every state of a run, fresh or resumed, and in every record of the
\* Session Store, 0 <= iteration <= maxIterations; and no step of the engine
\* lowers maxIterations.
C38_IterationBound ==
    /\ [](/\ 0 <= s.iteration
          /\ s.iteration <= s.maxIterations
          /\ \A i \in 1..Len(store) :
                 /\ 0 <= store[i].iteration
                 /\ store[i].iteration <= store[i].maxIterations)
    /\ [][s'.maxIterations >= s.maxIterations]_vars

\* a session whose bound was extended and which was later resumed at its
\* review step has had that review rejected: the compensating increment has
\* brought the iteration to the bound
C38_Witness ==
    /\ extensions > 0
    /\ resumes > 0
    /\ afterSkip = "rejected"
    /\ s.iteration = s.maxIterations

(***************************************************************************)
(* Claims about the shape of the history                                   *)
(***************************************************************************)
\* a history that is empty, or one prompt-generator entry of iteration 0
\* followed by implementer and reviewer entries in turn, each reviewer entry
\* with the iteration of the implementer entry before it
Shaped(h) ==
    \/ h = <<>>
    \/ /\ h[1].role = "prompt-generator"
       /\ h[1].iteration = 0
       /\ \A i \in 2..Len(h) :
              IF i % 2 = 0
              THEN h[i].role = "implementer"
              ELSE /\ h[i].role = "reviewer"
                   /\ h[i].iteration = h[i - 1].iteration

\* C40: the history of every record of the Session Store is one
\* prompt-generator entry (iteration 0) followed by implementer and reviewer
\* entries that alternate, each reviewer entry directly after the implementer
\* entry of its iteration (a record saved before the generator returned has
\* no entry yet).
C40_HistoryShape == \A i \in 1..Len(store) : Shaped(store[i].history)

(***************************************************************************)
(* Claims about the order of a session's events                            *)
(***************************************************************************)
AgentIdx(evs) == {i \in 1..Len(evs) : evs[i].type \in {"agent_start", "agent_complete"}}

\* every agent_complete comes right after the agent_start of its role, as far
\* as the agent events go
StartBeforeComplete(evs) ==
    \A i \in AgentIdx(evs) :
        evs[i].type = "agent_complete" =>
            /\ \E j \in AgentIdx(evs) : j < i
            /\ LET j == Max({k \in AgentIdx(evs) : k < i})
               IN  evs[j] = Ev("agent_start", evs[i].info)

\* no event follows a complete event
CompleteOnlyLast(evs) ==
    \A i \in 1..Len(evs) : evs[i].type = "complete" => i = Len(evs)

\* the events of a run are in the order of its steps as far as the claim
\* names it
C33_OrderOfSteps == StartBeforeComplete(emitted) /\ CompleteOnlyLast(emitted)

\* C33: in the events a run has emitted each agent_complete follows the
\* agent_start of its role, no event follows a complete event, and the last
\* event of a run that has returned is a complete event.
C33_SessionOrdering ==
    /\ C33_OrderOfSteps
    /\ pc = "done" =>
           /\ emitted # <<>>
           /\ emitted[Len(emitted)].type = "complete"

(***************************************************************************)
(* Claims about failing writes of the Session Store                        *)
(***************************************************************************)
\* C32: a failing write of the Session Store does not make the run throw or
\* stop: no run ends by a rejection that leaves orchestrate.
C32_DegradedMode == pc # "threw" /\ endedBy # "threw"

(***************************************************************************)
(* Claims about unsubscribing                                              *)
(***************************************************************************)
Gone == {id \in 1..subscriptionCounter : id \notin SubIds(subscriptions)}

\* C39: a handler whose unsubscribe function has been called is not invoked
\* again: no step hands an event to a subscription that is no longer
\* registered, and in a publish during which handlers call unsubscribe
\* functions no handler runs after its own unsubscription. Calling an
\* unsubscribe function again removes nothing.
C39_Unsubscribed ==
    /\ [](midPublish.late = {})
    /\ [][\A id \in Gone : received'[id] = received[id]]_vars
    /\ [](\A id \in Gone : Delete(subscriptions, id) = subscriptions)

\* during a publish a handler has called the unsubscribe function of a
\* subscription that the loop had not reached: that one got nothing, and
\* another subscription is still registered
C39_Witness ==
    /\ midPublish.skipped # {}
    /\ \E id \in midPublish.skipped : id \in Gone /\ received[id] = <<>>
    /\ subscriptions # <<>>

(***************************************************************************)
(* Claims about the approval predicate (checked under SpecApproval)        *)
(***************************************************************************)
SameLetter(a, b) ==
    \/ a = b
    \/ \E k \in 1..Len(LowerCase) : {a, b} = {LowerCase[k], UpperCase[k]}

\* str has word in it when upper and lower case count as the same
ContainsIgnoringCase(str, word) ==
    \E i \in 1..(Len(str) - Len(word) + 1) :
        \A j \in 1..Len(word) : SameLetter(str[i + j - 1], word[j])

\* C34: isApproved holds for an output exactly when the output, upper and
\* lower case counting as the same, contains APPROVED, LGTM or LOOKS GOOD; it
\* holds for "approved", "APPROVED", "Looks good, ship it" and "not approved
\* yet".
C34_ApprovalPredicate ==
    /\ verdict # "none" =>
           (verdict = "approved" <=>
                \/ ContainsIgnoringCase(reviewOutput, <<"A", "P", "P", "R", "O", "V", "E", "D">>)
                \/ ContainsIgnoringCase(reviewOutput, <<"L", "G", "T", "M">>)
                \/ ContainsIgnoringCase(reviewOutput, <<"L", "O", "O", "K", "S", " ", "G", "O", "O", "D">>))
    /\ isApproved(<<"a", "p", "p", "r", "o", "v", "e", "d">>)
    /\ isApproved(<<"A", "P", "P", "R", "O", "V", "E", "D">>)
    /\ isApproved(<<"L", "o", "o", "k", "s", " ", "g", "o", "o", "d", ",", " ", "s", "h", "i", "p", " ", "i", "t">>)
    /\ isApproved(<<"n", "o", "t", " ", "a", "p", "p", "r", "o", "v", "e", "d", " ", "y", "e", "t">>)

\* isApproved has returned true for "not approved yet"
C34_Witness ==
    /\ verdict = "approved"
    /\ reviewOutput = <<"n", "o", "t", " ", "a", "p", "p", "r", "o", "v", "e", "d", " ", "y", "e", "t">>

====
